---------------------------- MODULE Spec2Model ----------------------------
(***************************************************************************)
(* SaveIT: capture flows over the IndexedDB item store, the debounced      *)
(* search-intent extraction, and the filter / rank / limit pipeline of the *)
(* App component.                                                          *)
(*                                                                         *)
(* Five specifications, one per part of App;  the variables of the other   *)
(* parts stay at rest in each:                                             *)
(*   Spec, FairSpec  handleAddContent and handleDelete over the store,     *)
(*                   every await a step of its own;                        *)
(*   SpecIntent      the effect on searchQuery: timer, calls in flight;    *)
(*   SpecSearch      filteredItems applied to inputs drawn from bounded    *)
(*                   sets;                                                 *)
(*   SpecMerge       updateEnrichment called for items stored or deleted;  *)
(*   SpecTopic       normalizeTopic applied to its own result.             *)
(*                                                                         *)
(* JavaScript strings are TLA+ strings (TLC evaluates Len, SubSeq, Head,   *)
(* Tail and \o on them).  A field that is undefined in the source and is   *)
(* only ever read through || or && is modelled by the falsy value of its   *)
(* type ("" or 0), which those operators treat exactly like undefined.     *)
(***************************************************************************)
EXTENDS Integers, Sequences, FiniteSets, TLC

VARIABLES
    db,            \* the IndexedDB object store 'items': id -> SavedItem
    flow,          \* per handleAddContent call: its position and locals
    items,         \* React state `items`
    mounted,       \* whether the mount effect's refreshItems has run
    clock,         \* Date.now()
    deletes,       \* number of handleDelete calls made so far
    pendingDel,    \* handleDelete calls that still await refreshItems
    searchQuery,   \* React state `searchQuery`
    activeFilter,  \* React state `activeFilter`
    searchIntent,  \* React state `searchIntent`
    timer,         \* the pending debounce timers: <<[id, query]>>, in setTimeout order
    inflight,      \* getSearchIntent calls awaiting their result
    applied,       \* history: the last extraction outcome applied to searchIntent
    changes,       \* number of query-text changes made so far
    stages,        \* the value of `result` after each step of filteredItems
    rendered,      \* whether filteredItems has been computed for the inputs
    normalized     \* a topic text and the results of normalizeTopic applied to it in turn

storeVars  == <<db, flow, items, mounted, clock, deletes, pendingDel>>
intentVars == <<timer, inflight, applied, changes>>
searchVars == <<searchQuery, activeFilter, searchIntent>>
renderVars == <<stages, rendered, normalized>>
vars == <<db, flow, items, mounted, clock, deletes, pendingDel,
          searchQuery, activeFilter, searchIntent,
          timer, inflight, applied, changes, stages, rendered, normalized>>

----------------------------------------------------------------------------
(* Bounds of the model *)

MaxFlows   == 2    \* handleAddContent calls
MaxDeletes == 1    \* handleDelete calls
MaxTime    == 1    \* Date.now() ranges over 0..MaxTime
MaxChanges == 3    \* query-text changes
MaxItems   == 3    \* length of the item collection given to filteredItems
MaxNormalize == 2  \* applications of normalizeTopic to one topic text

Flows == 1..MaxFlows

----------------------------------------------------------------------------
(* JavaScript string operations *)

UpperChars == "ABCDEFGHIJKLMNOPQRSTUVWXYZ"
LowerChars == "abcdefghijklmnopqrstuvwxyz"

CharAt(s, i) == SubSeq(s, i, i)

LowerMap == [c \in {CharAt(UpperChars, i) : i \in 1..26} |->
               CharAt(LowerChars, CHOOSE i \in 1..26 : CharAt(UpperChars, i) = c)]
UpperMap == [c \in {CharAt(LowerChars, i) : i \in 1..26} |->
               CharAt(UpperChars, CHOOSE i \in 1..26 : CharAt(LowerChars, i) = c)]

RECURSIVE toLowerCase(_)
toLowerCase(s) ==
    IF Len(s) = 0 THEN ""
    ELSE (IF Head(s) \in DOMAIN LowerMap THEN LowerMap[Head(s)] ELSE Head(s))
         \o toLowerCase(Tail(s))

\* a character whose upper-case form is two characters (Unicode
\* SpecialCasing, which toUpperCase follows); its lower-case form is itself
SpecialUpperMap == [c \in {"ß"} |-> "SS"]

RECURSIVE toUpperCase(_)
toUpperCase(s) ==
    IF Len(s) = 0 THEN ""
    ELSE (IF Head(s) \in DOMAIN UpperMap THEN UpperMap[Head(s)]
          ELSE IF Head(s) \in DOMAIN SpecialUpperMap THEN SpecialUpperMap[Head(s)]
          ELSE Head(s))
         \o toUpperCase(Tail(s))

IsSpace(c) == c \in {" ", "\t", "\n"}

RECURSIVE trimStart(_)
trimStart(s) ==
    IF Len(s) > 0 /\ IsSpace(Head(s)) THEN trimStart(Tail(s)) ELSE s

RECURSIVE trimEnd(_)
trimEnd(s) ==
    IF Len(s) > 0 /\ IsSpace(CharAt(s, Len(s)))
    THEN trimEnd(SubSeq(s, 1, Len(s) - 1)) ELSE s

trim(s) == trimEnd(trimStart(s))

\* String.prototype.includes
includes(s, sub) ==
    \E i \in 1..(Len(s) - Len(sub) + 1) : SubSeq(s, i, i + Len(sub) - 1) = sub

\* s.slice(1)
sliceFrom1(s) == IF Len(s) = 0 THEN "" ELSE Tail(s)

\* s.charAt(0)
charAt0(s) == IF Len(s) = 0 THEN "" ELSE Head(s)

\* the index of the first whitespace character of s, or Len(s) + 1
RECURSIVE firstSpace(_, _)
firstSpace(s, i) ==
    IF i > Len(s) \/ IsSpace(CharAt(s, i)) THEN i ELSE firstSpace(s, i + 1)

\* s.split(/\s+/).filter(w => w.length > 0)
RECURSIVE splitWords(_)
splitWords(s) ==
    LET t == trimStart(s) IN
    IF Len(t) = 0 THEN <<>>
    ELSE LET e == firstSpace(t, 1) IN
         <<SubSeq(t, 1, e - 1)>> \o splitWords(SubSeq(t, e, Len(t)))

\* arr.join(' ')
RECURSIVE joinSpace(_)
joinSpace(arr) ==
    IF Len(arr) = 0 THEN ""
    ELSE IF Len(arr) = 1 THEN arr[1]
    ELSE arr[1] \o " " \o joinSpace(Tail(arr))

Range(seq) == {seq[i] : i \in 1..Len(seq)}

----------------------------------------------------------------------------
(* normalizeTopic *)

normalizeTopic(topic) ==
    LET t == trim(toLowerCase(topic)) IN
    IF includes(t, "finance") \/ includes(t, "invest") \/ includes(t, "money")
         \/ includes(t, "trading") THEN "Finance"
    ELSE IF includes(t, "gym") \/ includes(t, "workout") \/ includes(t, "fitness")
         \/ includes(t, "exercise") THEN "Fitness"
    ELSE IF includes(t, "recipe") \/ includes(t, "cooking") \/ includes(t, "food")
         \/ includes(t, "baking") \/ includes(t, "meal") THEN "Food"
    ELSE IF includes(t, "tech") \/ includes(t, "software") \/ includes(t, "programming")
         \/ includes(t, "ai") \/ includes(t, "coding") THEN "Tech"
    ELSE IF includes(t, "travel") \/ includes(t, "vacation") \/ includes(t, "trip")
         \/ includes(t, "place") THEN "Travel"
    ELSE IF includes(t, "fashion") \/ includes(t, "style") \/ includes(t, "outfit")
         THEN "Fashion"
    ELSE toUpperCase(charAt0(topic)) \o toLowerCase(sliceFrom1(topic))

----------------------------------------------------------------------------
(* The item store (Database, backendAPI.items) *)

NoIntent == [null |-> TRUE]
NoTimer  == <<>>
NoApplied == [none |-> TRUE]

\* The id of the item created by flow p (crypto.randomUUID()); ids below 1
\* belong to items persisted by an earlier session.
IdOf(p) == p

EmptyDB == [i \in {} |-> 0]

\* An item persisted by an earlier session (its number is 2: number 1 was
\* assigned to an item deleted since).
OldItem ==
    [id |-> 0, url |-> "https://youtu.be/old", title |-> "Old Clip",
     creator |-> "@old", tags |-> <<"youtube">>, topic |-> "Comedy",
     summary |-> "An old clip", dateAdded |-> 0, sequenceNumber |-> 2,
     engagementScore |-> 0, isEnriching |-> FALSE]

InitialStores == {EmptyDB, [i \in {0} |-> OldItem]}

\* db.getAllItems(): the stored items, in key order
RECURSIVE itemsOf(_, _)
itemsOf(d, ids) ==
    IF ids = {} THEN <<>>
    ELSE LET m == CHOOSE i \in ids : \A j \in ids : i <= j IN
         <<d[m]>> \o itemsOf(d, ids \ {m})

getAllItems(d) == itemsOf(d, DOMAIN d)

\* db.saveItem(item): store.put(item), an upsert by the key path 'id'
saveItem(d, item) ==
    [i \in DOMAIN d \cup {item.id} |-> IF i = item.id THEN item ELSE d[i]]

\* db.deleteItem(id)
deleteItem(d, id) == [i \in DOMAIN d \ {id} |-> d[i]]

\* all.reduce((max, i) => Math.max(max, i.sequenceNumber || 0), 0)
RECURSIVE maxSeqOf(_)
maxSeqOf(all) ==
    IF Len(all) = 0 THEN 0
    ELSE LET rest == maxSeqOf(SubSeq(all, 1, Len(all) - 1))
             n    == all[Len(all)].sequenceNumber
         IN  IF n > rest THEN n ELSE rest

\* mutant of nextSequenceNumber: the number taken from the count of items
nextSequenceNumberByCount(all) == Len(all) + 1

\* backendAPI.items.save, the sequence number given to an item that carries -1
nextSequenceNumber(all) == maxSeqOf(all) + 1

\* all.find(i => i.id === id): <<item>> or <<>>
find(all, id) ==
    IF \E i \in 1..Len(all) : all[i].id = id
    THEN <<all[CHOOSE i \in 1..Len(all) :
                 all[i].id = id /\ \A j \in 1..(i - 1) : all[j].id # id]>>
    ELSE <<>>

\* Array.from(new Set(arr)): the first occurrence of each element, in order
RECURSIVE dedupe(_)
dedupe(arr) ==
    IF Len(arr) = 0 THEN <<>>
    ELSE LET init == SubSeq(arr, 1, Len(arr) - 1)
             last == arr[Len(arr)]
         IN  IF last \in Range(init) THEN dedupe(init)
             ELSE dedupe(init) \o <<last>>

\* mutant of updatedItem: the title is replaced whatever the stored title is
updatedItemAnyTitle(item, aiData) ==
    [item EXCEPT
       !.title = IF aiData.suggestedTitle # ""
                 THEN aiData.suggestedTitle ELSE item.title,
       !.tags = dedupe(item.tags \o aiData.tags),
       !.topic = aiData.topic,
       !.summary = aiData.summary,
       !.engagementScore = IF aiData.engagementScore # 0
                           THEN aiData.engagementScore ELSE item.engagementScore,
       !.isEnriching = FALSE]

\* backendAPI.items.updateEnrichment: the item written for a stored item
updatedItem(item, aiData) ==
    [item EXCEPT
       !.title = IF (item.title = "Instagram Reel" \/ item.title = "Capturing...")
                    /\ aiData.suggestedTitle # ""
                 THEN aiData.suggestedTitle ELSE item.title,
       !.tags = dedupe(item.tags \o aiData.tags),
       !.topic = aiData.topic,
       !.summary = aiData.summary,
       !.engagementScore = IF aiData.engagementScore # 0
                           THEN aiData.engagementScore ELSE item.engagementScore,
       !.isEnriching = FALSE]

----------------------------------------------------------------------------
(* Collaborators of the capture flow *)

Urls == {"https://instagram.com/reel/x"}

\* fetchMetadata(url): it never throws; these are two of its results, the
\* Instagram fallback and a YouTube oEmbed answer.
Metas ==
    { [title |-> "Instagram Reel", creator |-> "@instagram_user",
       tags |-> <<"instagram", "fast-save">>, topic |-> "Uncategorized",
       summary |-> "Metadata capture pending background analysis..."],
      [title |-> "Lofi Mix", creator |-> "@dj",
       tags |-> <<"youtube", "fast-save">>, topic |-> "Uncategorized",
       summary |-> "YouTube Content by DJ: Lofi Mix"] }

\* enrichContent(url, meta): the parsed JSON of the model's answer.  iterable
\* is FALSE for an answer whose tags cannot be spread (aiData is `any`).
Patches ==
    { [tags |-> <<"fast-save", "money">>, topic |-> "Finance",
       summary |-> "Budget tips", suggestedTitle |-> "Budget Tips",
       engagementScore |-> 718, iterable |-> TRUE],
      [tags |-> <<"gym", "gym">>, topic |-> "Fitness",
       summary |-> "Leg day", suggestedTitle |-> "",
       engagementScore |-> 0, iterable |-> TRUE],
      [tags |-> <<>>, topic |-> "Tech",
       summary |-> "", suggestedTitle |-> "",
       engagementScore |-> 0, iterable |-> FALSE] }

skeletonItem(p, url, now) ==
    [id |-> IdOf(p), url |-> url, title |-> "New Memory",
     creator |-> "@capturing", tags |-> <<"saving">>, topic |-> "Capturing...",
     summary |-> "Capturing details...", dateAdded |-> now,
     sequenceNumber |-> -1, engagementScore |-> 0, isEnriching |-> TRUE]

\* mutant of metaItem: the skeleton is spread as its literal was written,
\* with sequenceNumber -1
metaItemOfLiteral(skeleton, meta) ==
    [skeleton EXCEPT !.title = meta.title, !.creator = meta.creator,
                     !.tags = meta.tags, !.topic = meta.topic,
                     !.summary = meta.summary, !.isEnriching = TRUE,
                     !.sequenceNumber = -1]

\* { ...skeletonItem, ...meta, isEnriching: true }
metaItem(skeleton, meta) ==
    [skeleton EXCEPT !.title = meta.title, !.creator = meta.creator,
                     !.tags = meta.tags, !.topic = meta.topic,
                     !.summary = meta.summary, !.isEnriching = TRUE]

\* mutant of clearedItem: the flag is left as read
clearedItemKeepsFlag(existing) == existing

\* { ...existing, isEnriching: false }
clearedItem(existing) == [existing EXCEPT !.isEnriching = FALSE]

IdleFlow ==
    [pc |-> "idle", item |-> <<>>, all |-> <<>>, aiData |-> <<>>, pending |-> <<>>]

----------------------------------------------------------------------------
(* The initial state *)

StoreInit ==
    /\ db \in InitialStores
    /\ flow = [p \in Flows |-> IdleFlow]
    /\ items = <<>>
    /\ mounted = FALSE
    /\ clock = 0
    /\ deletes = 0
    /\ pendingDel = 0

StoreIdle ==
    /\ db = EmptyDB
    /\ flow = [p \in Flows |-> IdleFlow]
    /\ mounted = TRUE
    /\ clock = 0
    /\ deletes = 0
    /\ pendingDel = 0

IntentIdle ==
    /\ timer = NoTimer
    /\ inflight = <<>>
    /\ applied = NoApplied
    /\ changes = 0

NoStages == [category |-> <<>>, text |-> <<>>, ranked |-> <<>>, limited |-> <<>>]

RenderIdle ==
    /\ stages = NoStages
    /\ rendered = FALSE
    /\ normalized = <<>>

Init ==
    /\ StoreInit
    /\ searchQuery = ""
    /\ activeFilter = "all"
    /\ searchIntent = NoIntent
    /\ IntentIdle
    /\ RenderIdle

----------------------------------------------------------------------------
(* handleAddContent, handleDelete and refreshItems, one action per await *)

SetFlow(p, f) == flow' = [flow EXCEPT ![p] = f]

\* the mount effect: refreshItems()
MountRefresh ==
    /\ ~mounted
    /\ mounted' = TRUE
    /\ items' = getAllItems(db)
    /\ UNCHANGED <<db, flow, clock, deletes, pendingDel>>
    /\ UNCHANGED <<searchVars, intentVars, renderVars>>

\* handleAddContent up to its first await: the skeleton item is built and
\* save(skeletonItem) finds sequenceNumber = -1
Start(p) ==
    /\ flow[p].pc = "idle"
    /\ IF p = 1 THEN TRUE ELSE flow[p - 1].pc # "idle"
    /\ \E url \in Urls, now \in clock..MaxTime :
         /\ clock' = now
         /\ SetFlow(p, [flow[p] EXCEPT !.pc = "saveRead",
                                       !.item = skeletonItem(p, url, now)])
    /\ UNCHANGED <<db, items, mounted, deletes, pendingDel>>
    /\ UNCHANGED <<searchVars, intentVars, renderVars>>

\* save: const all = await db.getAllItems(); item.sequenceNumber = maxSeq + 1
\* (the assignment writes the caller's skeletonItem object)
SaveRead(p) ==
    /\ flow[p].pc = "saveRead"
    /\ LET all == getAllItems(db) IN
       SetFlow(p, [flow[p] EXCEPT
                     !.pc = "savePut",
                     !.all = all,
                     !.item = [@ EXCEPT !.sequenceNumber = nextSequenceNumber(all)]])
    /\ UNCHANGED <<db, items, mounted, clock, deletes, pendingDel>>
    /\ UNCHANGED <<searchVars, intentVars, renderVars>>

\* save: await db.saveItem(item)
SavePut(p) ==
    /\ flow[p].pc = "savePut"
    /\ db' = saveItem(db, flow[p].item)
    /\ SetFlow(p, [flow[p] EXCEPT !.pc = "refresh1", !.all = <<>>])
    /\ UNCHANGED <<items, mounted, clock, deletes, pendingDel>>
    /\ UNCHANGED <<searchVars, intentVars, renderVars>>

\* await refreshItems(), at each of its four places in handleAddContent
AfterRefresh(pc) ==
    CASE pc = "refresh1" -> "meta"
      [] pc = "refresh2" -> "enrich"
      [] pc = "refresh3" -> "done"
      [] pc = "refresh4" -> "done"

Refresh(p) ==
    /\ flow[p].pc \in {"refresh1", "refresh2", "refresh3", "refresh4"}
    /\ items' = getAllItems(db)
    /\ SetFlow(p, [flow[p] EXCEPT !.pc = AfterRefresh(@)])
    /\ UNCHANGED <<db, mounted, clock, deletes, pendingDel>>
    /\ UNCHANGED <<searchVars, intentVars, renderVars>>

\* const meta = await fetchMetadata(url); await save(metaItem): the item
\* carries its assigned number, so save goes straight to the put
MetaSave(p) ==
    /\ flow[p].pc = "meta"
    /\ \E meta \in Metas :
         LET mi == metaItem(flow[p].item, meta) IN
         /\ db' = saveItem(db, mi)
         /\ SetFlow(p, [flow[p] EXCEPT !.pc = "refresh2", !.item = mi])
    /\ UNCHANGED <<items, mounted, clock, deletes, pendingDel>>
    /\ UNCHANGED <<searchVars, intentVars, renderVars>>

\* await enrichContent(url, meta) throws
EnrichFail(p) ==
    /\ flow[p].pc = "enrich"
    /\ SetFlow(p, [flow[p] EXCEPT !.pc = "catchRead"])
    /\ UNCHANGED <<db, items, mounted, clock, deletes, pendingDel>>
    /\ UNCHANGED <<searchVars, intentVars, renderVars>>

\* enrichContent answers aiData; updateEnrichment reads the store and builds
\* updatedItem, which throws when aiData.tags cannot be spread
UpdRead(p) ==
    /\ flow[p].pc = "enrich"
    /\ \E aiData \in Patches :
         LET found == find(getAllItems(db), IdOf(p)) IN
         IF found = <<>>
         THEN SetFlow(p, [flow[p] EXCEPT !.pc = "refresh3"])
         ELSE IF ~aiData.iterable
         THEN SetFlow(p, [flow[p] EXCEPT !.pc = "catchRead"])
         ELSE SetFlow(p, [flow[p] EXCEPT
                            !.pc = "updPut",
                            !.aiData = <<aiData>>,
                            !.pending = <<updatedItem(found[1], aiData)>>])
    /\ UNCHANGED <<db, items, mounted, clock, deletes, pendingDel>>
    /\ UNCHANGED <<searchVars, intentVars, renderVars>>

\* updateEnrichment: await db.saveItem(updatedItem)
UpdPut(p) ==
    /\ flow[p].pc = "updPut"
    /\ db' = saveItem(db, flow[p].pending[1])
    /\ SetFlow(p, [flow[p] EXCEPT !.pc = "refresh3", !.aiData = <<>>,
                                  !.pending = <<>>])
    /\ UNCHANGED <<items, mounted, clock, deletes, pendingDel>>
    /\ UNCHANGED <<searchVars, intentVars, renderVars>>

\* catch: const all = await getAll(); const existing = all.find(...)
CatchRead(p) ==
    /\ flow[p].pc = "catchRead"
    /\ LET existing == find(getAllItems(db), IdOf(p)) IN
       IF existing = <<>>
       THEN SetFlow(p, [flow[p] EXCEPT !.pc = "done"])
       ELSE SetFlow(p, [flow[p] EXCEPT
                          !.pc = "catchSave",
                          !.pending = <<clearedItem(existing[1])>>])
    /\ UNCHANGED <<db, items, mounted, clock, deletes, pendingDel>>
    /\ UNCHANGED <<searchVars, intentVars, renderVars>>

\* catch: await save({ ...existing, isEnriching: false })
CatchSave(p) ==
    /\ flow[p].pc = "catchSave"
    /\ db' = saveItem(db, flow[p].pending[1])
    /\ SetFlow(p, [flow[p] EXCEPT !.pc = "refresh4", !.pending = <<>>])
    /\ UNCHANGED <<items, mounted, clock, deletes, pendingDel>>
    /\ UNCHANGED <<searchVars, intentVars, renderVars>>

\* handleDelete(id), from the delete button of a rendered card
Delete(id) ==
    /\ deletes < MaxDeletes
    /\ \E i \in 1..Len(items) : items[i].id = id
    /\ db' = deleteItem(db, id)
    /\ deletes' = deletes + 1
    /\ pendingDel' = pendingDel + 1
    /\ UNCHANGED <<flow, items, mounted, clock>>
    /\ UNCHANGED <<searchVars, intentVars, renderVars>>

\* handleDelete: await refreshItems()
DeleteRefresh ==
    /\ pendingDel > 0
    /\ items' = getAllItems(db)
    /\ pendingDel' = pendingDel - 1
    /\ UNCHANGED <<db, flow, mounted, clock, deletes>>
    /\ UNCHANGED <<searchVars, intentVars, renderVars>>

Next ==
    \/ MountRefresh
    \/ \E p \in Flows : Start(p)
    \/ \E p \in Flows : SaveRead(p)
    \/ \E p \in Flows : SavePut(p)
    \/ \E p \in Flows : Refresh(p)
    \/ \E p \in Flows : MetaSave(p)
    \/ \E p \in Flows : EnrichFail(p)
    \/ \E p \in Flows : UpdRead(p)
    \/ \E p \in Flows : UpdPut(p)
    \/ \E p \in Flows : CatchRead(p)
    \/ \E p \in Flows : CatchSave(p)
    \/ \E id \in 0..MaxFlows : Delete(id)
    \/ DeleteRefresh

Spec == Init /\ [][Next]_vars

\* The steps of a started capture flow: run by the event loop, which leaves
\* no ready continuation waiting for ever.  Start is the user's submit.
Background(p) ==
    \/ SaveRead(p)
    \/ SavePut(p)
    \/ Refresh(p)
    \/ MetaSave(p)
    \/ EnrichFail(p)
    \/ UpdRead(p)
    \/ UpdPut(p)
    \/ CatchRead(p)
    \/ CatchSave(p)

FairSpec == Spec /\ \A p \in Flows : WF_vars(Background(p))

----------------------------------------------------------------------------
(* Claims about the item store *)

StoredSeqs == {db[i].sequenceNumber : i \in DOMAIN db}

\* the maximum sequenceNumber among the stored items, 0 for an empty store
MaxStored ==
    IF StoredSeqs = {} THEN 0
    ELSE CHOOSE m \in StoredSeqs : \A n \in StoredSeqs : n <= m

\* C1: in every reachable state of the store no two stored items have the
\* same sequenceNumber and no stored item has the sentinel -1.
C1_UniqueSequenceNumbers ==
    \A i, j \in DOMAIN db :
        /\ db[i].sequenceNumber # -1
        /\ i # j => db[i].sequenceNumber # db[j].sequenceNumber

\* C2: a save of an item carrying -1 whose put finds the store as its read
\* left it stores the item with number M + 1, M the maximum stored number
\* (0 for an empty store); the number is greater than every number stored
\* before, so two such saves in a row store increasing numbers.
C2_SaveAssignsMaxPlusOne ==
    [][\A p \in Flows :
         (/\ flow[p].pc = "savePut"
          /\ flow'[p].pc = "refresh1"
          /\ flow[p].all = getAllItems(db))
         => /\ IdOf(p) \in DOMAIN db'
            /\ db'[IdOf(p)].sequenceNumber = MaxStored + 1
            /\ \A i \in DOMAIN db :
                 db'[IdOf(p)].sequenceNumber > db[i].sequenceNumber]_vars

\* C2 witness: flow 1 saved into a store holding number M, then flow 2
\* saved; nothing else wrote the store.
C2_Witness ==
    /\ flow[1].pc = "meta"
    /\ flow[2].pc = "refresh1"
    /\ deletes = 0
    /\ DOMAIN db = {0, 1, 2}
    /\ db[1].sequenceNumber = db[0].sequenceNumber + 1
    /\ db[2].sequenceNumber = db[1].sequenceNumber + 1

\* C4: when phase 2 has failed and the catch block has found the item in
\* the store, the flow eventually stores the item with isEnriching = FALSE
\* and every other field as the metadata save wrote it.
C4_FailureClearsEnriching ==
    \A p \in Flows :
        (flow[p].pc = "catchSave")
        ~> (/\ IdOf(p) \in DOMAIN db
            /\ db[IdOf(p)] = [flow[p].item EXCEPT !.isEnriching = FALSE])

\* C4 witness: a flow on the failure path has written its item back.
C4_Witness ==
    \E p \in Flows :
        /\ flow[p].pc = "refresh4"
        /\ flow[p].item.isEnriching
        /\ flow[p].item.title \in {m.title : m \in Metas}
        /\ IdOf(p) \in DOMAIN db
        /\ db[IdOf(p)] = [flow[p].item EXCEPT !.isEnriching = FALSE]

\* C15: once handleDelete(id) has completed, no step of the item's capture
\* flow puts an item with that id into the store again: with no delete
\* awaiting its refresh, the only step that adds the id of a flow to the
\* store is the flow's first save.
C15_DeletedStaysDeleted ==
    [][\A p \in Flows :
         (/\ pendingDel = 0
          /\ IdOf(p) \notin DOMAIN db
          /\ IdOf(p) \in DOMAIN db')
         => flow[p].pc = "savePut"]_vars

\* C16: from the first save of a flow on, the flow's item and every stored
\* version of it carry the sequenceNumber assigned by that save, which is
\* not -1, and the dateAdded of the skeleton item, whichever of the flow's
\* writes stored it.
C16_NumberAndDateKept ==
    [][\A p \in Flows :
         (flow[p].pc \notin {"idle", "saveRead"})
         => /\ flow'[p].item.sequenceNumber = flow[p].item.sequenceNumber
            /\ flow'[p].item.dateAdded = flow[p].item.dateAdded
            /\ flow[p].item.sequenceNumber # -1
            /\ IdOf(p) \in DOMAIN db'
                 => /\ db'[IdOf(p)].sequenceNumber = flow[p].item.sequenceNumber
                    /\ db'[IdOf(p)].dateAdded = flow[p].item.dateAdded]_vars

\* C16 witness: two flows have made all their writes, one through
\* updateEnrichment and one through the failure path.
C16_Witness ==
    \E p, q \in Flows :
        /\ flow[p].pc = "done" /\ flow[q].pc = "done"
        /\ {IdOf(p), IdOf(q)} \subseteq DOMAIN db
        /\ db[IdOf(p)].topic \in {a.topic : a \in Patches}
        /\ db[IdOf(q)].topic = "Uncategorized"
        /\ ~db[IdOf(p)].isEnriching /\ ~db[IdOf(q)].isEnriching
        /\ db[IdOf(p)].sequenceNumber = flow[p].item.sequenceNumber
        /\ db[IdOf(q)].sequenceNumber = flow[q].item.sequenceNumber
        /\ db[IdOf(q)].dateAdded = 1

----------------------------------------------------------------------------
(* updateEnrichment on its own: flows that stand at the call, each with    *)
(* the item its metadata save wrote, some of the items deleted since       *)

\* fetchMetadata's answers: Metas and the answer for a url of no known
\* platform, which keeps the title 'Capturing...'
MergeMetas ==
    Metas \cup
    { [title |-> "Capturing...", creator |-> "@analyzing",
       tags |-> <<"unknown", "fast-save">>, topic |-> "Uncategorized",
       summary |-> "Retrieving public metadata..."] }

\* the item of flow p after its two saves, the p-th item saved
savedMetaItem(p, url, meta) ==
    metaItem([skeletonItem(p, url, 0) EXCEPT !.sequenceNumber = p], meta)

InitMerge ==
    /\ \E its \in [Flows -> MergeMetas], stored \in SUBSET Flows :
         /\ flow = [p \in Flows |->
                      [IdleFlow EXCEPT
                         !.pc = "enrich",
                         !.item = savedMetaItem(p, CHOOSE u \in Urls : TRUE, its[p])]]
         /\ db = [i \in {IdOf(p) : p \in stored} |->
                    savedMetaItem(i, CHOOSE u \in Urls : TRUE, its[i])]
    /\ items = getAllItems(db)
    /\ mounted = TRUE
    /\ clock = 0
    /\ deletes = 0
    /\ pendingDel = 0
    /\ searchQuery = ""
    /\ activeFilter = "all"
    /\ searchIntent = NoIntent
    /\ IntentIdle
    /\ RenderIdle

NextMerge ==
    \/ \E p \in Flows : UpdRead(p)
    \/ \E p \in Flows : UpdPut(p)

SpecMerge == InitMerge /\ [][NextMerge]_vars

\* the tags of old, then each tag of new that is not there yet
RECURSIVE appendMissing(_, _)
appendMissing(old, new) ==
    IF Len(new) = 0 THEN old
    ELSE appendMissing(IF Head(new) \in Range(old) THEN old
                       ELSE Append(old, Head(new)), Tail(new))

Placeholders == {"Instagram Reel", "Capturing..."}

\* C13: the put of updateEnrichment(id, patch) on a stored item writes the
\* item with tags = the stored tags followed by the patch tags not present
\* yet, topic and summary of the patch, engagementScore of the patch if it
\* is not 0 and the stored one otherwise, title = the suggested title if
\* the stored title is a placeholder and a suggested title is given and the
\* stored title otherwise, isEnriching FALSE, every other field as stored,
\* and writes nothing else; with no item of that id stored the call leaves
\* the store as it is.
C13_UpdateEnrichmentMerge ==
    [][\A p \in Flows :
         LET id == IdOf(p) IN
         /\ (flow[p].pc = "updPut" /\ flow'[p].pc = "refresh3" /\ id \in DOMAIN db)
            => LET old   == db[id]
                   patch == flow[p].aiData[1]
                   new   == db'[id]
               IN  /\ DOMAIN db' = DOMAIN db
                   /\ \A i \in DOMAIN db \ {id} : db'[i] = db[i]
                   /\ new.tags = appendMissing(old.tags, patch.tags)
                   /\ \A i, j \in 1..Len(new.tags) : i # j => new.tags[i] # new.tags[j]
                   /\ new.topic = patch.topic
                   /\ new.summary = patch.summary
                   /\ new.engagementScore =
                        (IF patch.engagementScore # 0 THEN patch.engagementScore
                         ELSE old.engagementScore)
                   /\ new.title =
                        (IF old.title \in Placeholders /\ patch.suggestedTitle # ""
                         THEN patch.suggestedTitle ELSE old.title)
                   /\ new.isEnriching = FALSE
                   /\ new.id = old.id
                   /\ new.url = old.url
                   /\ new.creator = old.creator
                   /\ new.dateAdded = old.dateAdded
                   /\ new.sequenceNumber = old.sequenceNumber
         /\ (flow[p].pc = "enrich" /\ flow'[p].pc # "enrich" /\ id \notin DOMAIN db)
            => /\ db' = db
               /\ flow'[p].pc = "refresh3"]_vars

\* C13 witness: an item titled with a placeholder was merged with a patch
\* that shares a tag with it and gives a title and a score, another item
\* was deleted before its call, which has returned.
C13_Witness ==
    \E p, q \in Flows :
        /\ flow[p].pc = "refresh3"
        /\ IdOf(p) \in DOMAIN db
        /\ flow[p].item.title = "Capturing..."
        /\ db[IdOf(p)].title = "Budget Tips"
        /\ db[IdOf(p)].tags = <<"unknown", "fast-save", "money">>
        /\ db[IdOf(p)].engagementScore = 718
        /\ ~db[IdOf(p)].isEnriching
        /\ flow[q].pc = "refresh3"
        /\ IdOf(q) \notin DOMAIN db

----------------------------------------------------------------------------
(* The intent-extraction effect of App (useEffect on searchQuery) *)

\* texts the user types into the search box
Queries == {"", "ai", " ai  ", "last finance reel", "most liked recipes"}

\* getSearchIntent's catch: { keywords: [query], topics: [], intent: query }
fallbackIntent(query) ==
    [keywords |-> <<query>>, topics |-> <<>>, sortBy |-> "", limit |-> 0]

\* answers of the model that JSON.parse accepts
ParsedIntents ==
    { [keywords |-> <<>>, topics |-> <<"Finance">>,
       sortBy |-> "sequence-desc", limit |-> 1],
      [keywords |-> <<>>, topics |-> <<"Food">>,
       sortBy |-> "engagement-desc", limit |-> 0] }

\* what getSearchIntent(query) may resolve to
Responses(query) == ParsedIntents \cup {fallbackIntent(query)}

removeAt(seq, i) == SubSeq(seq, 1, i - 1) \o SubSeq(seq, i + 1, Len(seq))

\* const timer = setTimeout(callback, 600): the callback closes over the
\* searchQuery of the render that ran the effect; id is the handle returned
setTimeout(timers, id, query) == Append(timers, [id |-> id, query |-> query])

\* mutant of clearTimeout: the cleanup leaves the timer pending
clearTimeoutLeavesPending(timers, id) == timers

\* the effect's cleanup, () => clearTimeout(timer)
clearTimeout(timers, id) == SelectSeq(timers, LAMBDA t : t.id # id)

IntentInit ==
    /\ searchQuery = ""
    /\ searchIntent = NoIntent
    /\ timer = setTimeout(NoTimer, 0, "")   \* the effect has run once, on mount
    /\ inflight = <<>>
    /\ applied = NoApplied
    /\ changes = 0

\* setSearchQuery(q) with a new text: the effect's cleanup clears the pending
\* timer and the effect sets a new one, whose callback closes over q.  The
\* handle of the timer set by the n-th run of the effect is n (the mount's 0).
ChangeQuery(q) ==
    /\ changes < MaxChanges
    /\ q # searchQuery
    /\ searchQuery' = q
    /\ timer' = setTimeout(clearTimeout(timer, changes), changes + 1, q)
    /\ changes' = changes + 1
    /\ UNCHANGED <<searchIntent, inflight, applied, activeFilter>>
    /\ UNCHANGED <<storeVars, renderVars>>

\* the timer's callback, 600 ms after it was set, up to its await
TimerFire(i) ==
    /\ i \in 1..Len(timer)
    /\ LET queryTrim == trim(timer[i].query) IN
       IF Len(queryTrim) > 3
       THEN /\ inflight' = Append(inflight, queryTrim)
            /\ UNCHANGED searchIntent
       ELSE /\ searchIntent' = NoIntent
            /\ UNCHANGED inflight
    /\ timer' = removeAt(timer, i)
    /\ UNCHANGED <<searchQuery, applied, changes, activeFilter>>
    /\ UNCHANGED <<storeVars, renderVars>>

\* const intent = await getSearchIntent(queryTrim); setSearchIntent(intent)
Resolve(i) ==
    /\ i \in 1..Len(inflight)
    /\ \E intent \in Responses(inflight[i]) : searchIntent' = intent
    /\ applied' = [query |-> inflight[i], current |-> searchQuery, failed |-> FALSE]
    /\ inflight' = removeAt(inflight, i)
    /\ UNCHANGED <<searchQuery, timer, changes, activeFilter>>
    /\ UNCHANGED <<storeVars, renderVars>>

\* getSearchIntent rejects: catch (e) { setSearchIntent(null) }
Reject(i) ==
    /\ i \in 1..Len(inflight)
    /\ searchIntent' = NoIntent
    /\ applied' = [query |-> inflight[i], current |-> searchQuery, failed |-> TRUE]
    /\ inflight' = removeAt(inflight, i)
    /\ UNCHANGED <<searchQuery, timer, changes, activeFilter>>
    /\ UNCHANGED <<storeVars, renderVars>>

InitIntent ==
    /\ IntentInit
    /\ activeFilter = "all"
    /\ items = <<>>
    /\ StoreIdle
    /\ RenderIdle

NextIntent ==
    \/ \E q \in Queries : ChangeQuery(q)
    \/ \E i \in 1..(MaxChanges + 1) : TimerFire(i)
    \/ \E i \in 1..MaxChanges : Resolve(i)
    \/ \E i \in 1..MaxChanges : Reject(i)

SpecIntent == InitIntent /\ [][NextIntent]_vars

\* C3: whenever an extraction call completes and its result or its failure
\* is applied to searchIntent, the query that triggered the call is still
\* the current query text.
C3_OnlyCurrentQueryApplies ==
    applied # NoApplied => applied.query = trim(applied.current)

\* C11: a step that changes the query text to one whose trimmed length is
\* at most 3 leaves searchIntent absent in the same step, so that no render
\* sees the new short query together with the previous intent.
C11_ShortQueryClearsIntentAtOnce ==
    [][(searchQuery' # searchQuery /\ Len(trim(searchQuery')) <= 3)
         => searchIntent' = NoIntent]_vars

\* C12: at most one debounce timer is pending, and it is the one set by the
\* latest change of the query text; an extraction call is started only by
\* that timer, for the trimmed current text, and its start leaves no timer
\* pending, so the changes made before the timer fired start no call.
C12_OneTimerOneCall ==
    [][/\ Len(timer') <= 1
       /\ \A i \in 1..Len(timer') :
            timer'[i] = [id |-> changes', query |-> searchQuery']
       /\ Len(inflight') > Len(inflight)
            => /\ timer = <<[id |-> changes, query |-> searchQuery]>>
               /\ timer' = NoTimer
               /\ Len(trim(searchQuery)) > 3
               /\ inflight' = Append(inflight, trim(searchQuery))]_vars

\* C12 witness: the text was changed twice, no call has completed, and the
\* only call started is the one for the final text.
C12_Witness ==
    /\ changes = 2
    /\ searchQuery = "last finance reel"
    /\ timer = NoTimer
    /\ inflight = <<"last finance reel">>
    /\ applied = NoApplied
    /\ searchIntent = NoIntent

----------------------------------------------------------------------------
(* filteredItems: category filter, text filter, ranking, content limit *)

\* mutant of matchesCategory: the tags are not looked at
matchesCategoryTopicOnly(item, af) ==
    toLowerCase(normalizeTopic(item.topic)) = toLowerCase(af)

\* 1. Label/Filter System: the callback of result.filter
matchesCategory(item, af) ==
    \/ toLowerCase(normalizeTopic(item.topic)) = toLowerCase(af)
    \/ \E i \in 1..Len(item.tags) :
         toLowerCase(normalizeTopic(item.tags[i])) = toLowerCase(af)

categoryFilter(result, af) ==
    IF af # "all"
    THEN LET keep(item) == matchesCategory(item, af) IN SelectSeq(result, keep)
    ELSE result

\* `${item.title} ${item.topic} ${item.summary} ${item.creator} ${item.tags.join(' ')}`.toLowerCase()
searchableText(item) ==
    toLowerCase(item.title \o " " \o item.topic \o " " \o item.summary \o " "
                \o item.creator \o " " \o joinSpace(item.tags))

\* queryWords.every(word => searchableText.includes(word))
matchesAllWords(item, queryWords) ==
    \A i \in 1..Len(queryWords) : includes(searchableText(item), queryWords[i])

\* aiKeywords.some(k => searchableText.includes(k.toLowerCase()))
matchesAiKeyword(item, aiKeywords) ==
    \E i \in 1..Len(aiKeywords) :
        includes(searchableText(item), toLowerCase(aiKeywords[i]))

\* mutant of matchesAiTopic: only the equality of the normalized forms
matchesAiTopicExact(item, aiTopics) ==
    \E i \in 1..Len(aiTopics) :
        toLowerCase(normalizeTopic(aiTopics[i])) = toLowerCase(normalizeTopic(item.topic))

\* aiTopics.some(t => normalizeTopic(item.topic).toLowerCase().includes(t.toLowerCase())
\*                 || normalizeTopic(t).toLowerCase() === normalizeTopic(item.topic).toLowerCase())
matchesAiTopic(item, aiTopics) ==
    \E i \in 1..Len(aiTopics) :
        \/ includes(toLowerCase(normalizeTopic(item.topic)), toLowerCase(aiTopics[i]))
        \/ toLowerCase(normalizeTopic(aiTopics[i])) = toLowerCase(normalizeTopic(item.topic))

\* mutant of matchesText: a present intent decides alone
matchesTextIntentFirst(item, queryWords, intent) ==
    IF intent # NoIntent
    THEN matchesAiKeyword(item, intent.keywords) \/ matchesAiTopic(item, intent.topics)
    ELSE matchesAllWords(item, queryWords)

\* 2. Exact Keyword Matching & Intent Filtering: the callback of result.filter
matchesText(item, queryWords, intent) ==
    IF matchesAllWords(item, queryWords) THEN TRUE
    ELSE IF intent # NoIntent
    THEN matchesAiKeyword(item, intent.keywords) \/ matchesAiTopic(item, intent.topics)
    ELSE FALSE

textFilter(result, sq, intent) ==
    LET query == trim(toLowerCase(sq)) IN
    IF query # ""
    THEN LET queryWords == splitWords(query)
             keep(item) == matchesText(item, queryWords, intent)
         IN  SelectSeq(result, keep)
    ELSE result

\* mutant of sortModeOf: the default is oldest first
sortModeOfAscDefault(intent) ==
    IF intent = NoIntent THEN "date-asc"
    ELSE IF intent.sortBy = "" THEN "date-asc"
    ELSE intent.sortBy

\* searchIntent?.sortBy || 'date-desc'
sortModeOf(intent) ==
    IF intent = NoIntent THEN "date-desc"
    ELSE IF intent.sortBy = "" THEN "date-desc"
    ELSE intent.sortBy

\* the comparator of the first result.sort
compareRank(a, b, sortMode) ==
    CASE sortMode = "engagement-desc" -> b.engagementScore - a.engagementScore
      [] sortMode = "sequence-desc"   -> b.sequenceNumber - a.sequenceNumber
      [] sortMode = "date-asc"        -> a.dateAdded - b.dateAdded
      [] OTHER                        -> b.dateAdded - a.dateAdded

\* mutant of compareStable: no tie-break on dateAdded
compareStableNoTieBreak(a, b, sortMode) ==
    IF sortMode = "engagement-desc"
    THEN b.engagementScore - a.engagementScore
    ELSE b.sequenceNumber - a.sequenceNumber

\* the comparator of the final stability sort
compareStable(a, b, sortMode) ==
    LET primary == IF sortMode = "engagement-desc"
                   THEN b.engagementScore - a.engagementScore
                   ELSE b.sequenceNumber - a.sequenceNumber
    IN  IF primary = 0 THEN b.dateAdded - a.dateAdded ELSE primary

comparefn(a, b, sortMode, pass) ==
    IF pass = 1 THEN compareRank(a, b, sortMode) ELSE compareStable(a, b, sortMode)

\* Array.prototype.sort, a stable sort: x is placed before the first element
\* that the comparator orders after it
insertSorted(sorted, x, sortMode, pass) ==
    LET after == {i \in 1..Len(sorted) : comparefn(sorted[i], x, sortMode, pass) > 0}
        k     == IF after = {} THEN Len(sorted) + 1
                 ELSE CHOOSE i \in after : \A j \in after : i <= j
    IN  SubSeq(sorted, 1, k - 1) \o <<x>> \o SubSeq(sorted, k, Len(sorted))

RECURSIVE sort(_, _, _)
sort(arr, sortMode, pass) ==
    IF Len(arr) = 0 THEN <<>>
    ELSE insertSorted(sort(SubSeq(arr, 1, Len(arr) - 1), sortMode, pass),
                      arr[Len(arr)], sortMode, pass)

\* 3. Metadata-Driven Ranking, and the final stability sort
rank(result, intent) ==
    LET sortMode == sortModeOf(intent)
        first    == sort(result, sortMode, 1)
    IN  IF sortMode # "date-asc" /\ sortMode # "date-desc"
        THEN sort(first, sortMode, 2)
        ELSE first

\* mutant of contentLimit: the test limit > 0 is left out, and slice(0, n)
\* with a negative n drops the last -n elements
contentLimitNoPositiveTest(result, intent) ==
    IF intent # NoIntent /\ intent.limit # 0
    THEN IF intent.limit > 0
         THEN SubSeq(result, 1, IF intent.limit < Len(result) THEN intent.limit
                                ELSE Len(result))
         ELSE SubSeq(result, 1, Len(result) + intent.limit)
    ELSE result

\* 4. Content Limit: result.slice(0, searchIntent.limit)
contentLimit(result, intent) ==
    IF intent # NoIntent /\ intent.limit # 0 /\ intent.limit > 0
    THEN SubSeq(result, 1, IF intent.limit < Len(result) THEN intent.limit
                           ELSE Len(result))
    ELSE result

filteredItems(its, sq, af, intent) ==
    LET category == categoryFilter(its, af)
        text     == textFilter(category, sq, intent)
        ranked   == rank(text, intent)
    IN  [category |-> category, text |-> text, ranked |-> ranked,
         limited |-> contentLimit(ranked, intent)]

----------------------------------------------------------------------------
(* The inputs of filteredItems *)

ItemPool ==
    { [id |-> 11, url |-> "u", title |-> "Budget Tips", creator |-> "@fin",
       tags |-> <<>>, topic |-> "Crypto Trading", summary |-> "Save more",
       dateAdded |-> 1, sequenceNumber |-> 1, engagementScore |-> 0,
       isEnriching |-> FALSE],
      [id |-> 12, url |-> "u", title |-> "Pasta", creator |-> "@chef",
       tags |-> <<"Cooking">>, topic |-> "Recipes", summary |-> "",
       dateAdded |-> 2, sequenceNumber |-> 2, engagementScore |-> 5,
       isEnriching |-> FALSE],
      [id |-> 13, url |-> "u", title |-> "Leg Day", creator |-> "@gym",
       tags |-> <<"Workout", "finance bro">>, topic |-> "Comedy skits",
       summary |-> "", dateAdded |-> 2, sequenceNumber |-> 3,
       engagementScore |-> 5, isEnriching |-> FALSE],
      [id |-> 14, url |-> "u", title |-> "Finance reel", creator |-> "@x",
       tags |-> <<"saving", "Road Trip">>, topic |-> "Uncategorized", summary |-> "",
       dateAdded |-> 3, sequenceNumber |-> 4, engagementScore |-> 5,
       isEnriching |-> TRUE],
      [id |-> 15, url |-> "u", title |-> "Chips", creator |-> "@dev",
       tags |-> <<"AI", "outfit">>, topic |-> " Tech", summary |-> "",
       dateAdded |-> 0, sequenceNumber |-> 5, engagementScore |-> 9,
       isEnriching |-> FALSE] }

\* the collections of at most n distinct items, in every order
RECURSIVE CollectionsUpTo(_)
CollectionsUpTo(n) ==
    IF n = 0 THEN {<<>>}
    ELSE LET shorter == CollectionsUpTo(n - 1) IN
         shorter \cup {Append(c, x) : <<c, x>> \in
                         {<<c, x>> \in shorter \X ItemPool :
                            Len(c) = n - 1 /\ x \notin Range(c)}}

Collections == CollectionsUpTo(MaxItems)

SearchQueries == {"", " ", "Finance", "last finance reel", "pasta  chef"}

\* 'all', and the ids dynamicFilters derives for the canonical categories
ActiveFilters == {"all", "finance", "fitness", "food", "tech", "travel", "fashion"}

SearchIntents ==
    { NoIntent,
      [keywords |-> <<>>, topics |-> <<"Finance">>,
       sortBy |-> "sequence-desc", limit |-> 1],
      [keywords |-> <<>>, topics |-> <<"Food">>,
       sortBy |-> "engagement-desc", limit |-> 0],
      [keywords |-> <<"CHEF">>, topics |-> <<"skits">>,
       sortBy |-> "", limit |-> 2],
      [keywords |-> <<>>, topics |-> <<"Money">>,
       sortBy |-> "date-asc", limit |-> -1],
      fallbackIntent("last finance reel") }

InitSearch ==
    /\ items \in Collections
    /\ searchQuery \in SearchQueries
    /\ activeFilter \in ActiveFilters
    /\ searchIntent \in SearchIntents
    /\ StoreIdle
    /\ IntentIdle
    /\ RenderIdle

\* a render of App: the useMemo recomputes filteredItems from its four inputs
Render ==
    /\ ~rendered
    /\ stages' = filteredItems(items, searchQuery, activeFilter, searchIntent)
    /\ rendered' = TRUE
    /\ UNCHANGED <<storeVars, searchVars, intentVars, normalized>>

NextSearch == Render

SpecSearch == InitSearch /\ [][NextSearch]_vars

----------------------------------------------------------------------------
(* Claims about filteredItems *)

CanonicalCategories == {"Finance", "Fitness", "Food", "Tech", "Travel", "Fashion"}

QueryIsEmpty == trim(toLowerCase(searchQuery)) = ""

\* the whitespace-separated lower-cased tokens of the query
QueryTokens == splitWords(toLowerCase(searchQuery))

\* every token of the query is a substring of the item's haystack
AllTokensIn(item) ==
    \A w \in Range(QueryTokens) : includes(searchableText(item), w)

\* the position of item x in the input collection
InputPos(x) == CHOOSE i \in 1..Len(items) : items[i] = x

LimitOf(intent) == IF intent = NoIntent THEN 0 ELSE intent.limit

\* C5: with an empty query and a canonical category C as the active filter
\* (id = lower-cased C), the filtered set is exactly the items whose
\* normalized topic is C or that have a tag normalizing to C; with the
\* filter 'all' the category step removes nothing.
C5_CategoryFilterExact ==
    (rendered /\ QueryIsEmpty) =>
        /\ activeFilter = "all" => stages.category = items
        /\ \A C \in CanonicalCategories :
             activeFilter = toLowerCase(C) =>
               Range(stages.text) =
                 {x \in Range(items) :
                    \/ normalizeTopic(x.topic) = C
                    \/ \E t \in Range(x.tags) : normalizeTopic(t) = C}

\* C5 witness: the filter 'finance' keeps an item by its topic and one by a
\* tag only, and drops a third.
C5_Witness ==
    /\ rendered /\ searchQuery = "" /\ activeFilter = "finance"
    /\ Len(items) = 3 /\ Len(stages.text) = 2
    /\ \E x \in Range(stages.text) : normalizeTopic(x.topic) = "Finance"
    /\ \E x \in Range(stages.text) : normalizeTopic(x.topic) # "Finance"

\* C6: for a non-empty query, an item that passed the category filter and
\* whose haystack contains every token of the query is kept by the text
\* filter, whatever searchIntent is.
C6_AllWordsMatchKept ==
    (rendered /\ ~QueryIsEmpty) =>
        \A x \in Range(stages.category) :
            AllTokensIn(x) => x \in Range(stages.text)

\* C6 witness: an item is kept on its words alone while the intent present
\* matches neither its haystack nor its topic.
C6_Witness ==
    /\ rendered /\ searchQuery = "pasta  chef"
    /\ searchIntent # NoIntent
    /\ searchIntent.keywords = <<>> /\ searchIntent.topics = <<"Money">>
    /\ \E x \in Range(stages.text) : x.id = 12 /\ AllTokensIn(x)
    /\ Len(stages.text) < Len(stages.category)

\* C7 as stated: for a non-empty query and a present intent, an item that
\* fails the all-words match is kept iff some intent keyword (lower-cased)
\* is in its haystack, or some intent topic, once normalized, is a substring
\* of, or equal to, the normalized form of item.topic.
C7_FallbackNormalizedTopic ==
    (rendered /\ ~QueryIsEmpty /\ searchIntent # NoIntent) =>
        \A x \in Range(stages.category) :
            ~AllTokensIn(x) =>
              (x \in Range(stages.text) <=>
                 \/ \E k \in Range(searchIntent.keywords) :
                      includes(searchableText(x), toLowerCase(k))
                 \/ \E t \in Range(searchIntent.topics) :
                      \/ includes(normalizeTopic(x.topic), normalizeTopic(t))
                      \/ normalizeTopic(t) = normalizeTopic(x.topic))

\* C7 amended: ... or some intent topic, lower-cased as given, is a
\* substring of the lower-cased normalized form of item.topic, or has a
\* normalized form equal, ignoring case, to the normalized form of item.topic.
C7_FallbackLowerCasedTopic ==
    (rendered /\ ~QueryIsEmpty /\ searchIntent # NoIntent) =>
        \A x \in Range(stages.category) :
            ~AllTokensIn(x) =>
              (x \in Range(stages.text) <=>
                 \/ \E k \in Range(searchIntent.keywords) :
                      includes(searchableText(x), toLowerCase(k))
                 \/ \E t \in Range(searchIntent.topics) :
                      \/ includes(toLowerCase(normalizeTopic(x.topic)), toLowerCase(t))
                      \/ toLowerCase(normalizeTopic(t))
                           = toLowerCase(normalizeTopic(x.topic)))

\* C7 witness: the intent topic "skits" keeps the item of topic
\* "Comedy skits", which fails the all-words match, while another item is
\* dropped.
C7_Witness ==
    /\ rendered /\ searchQuery = "last finance reel"
    /\ searchIntent # NoIntent /\ searchIntent.topics = <<"skits">>
    /\ \E x \in Range(stages.text) : x.id = 13 /\ ~AllTokensIn(x)
    /\ \E x \in Range(stages.category) : x \notin Range(stages.text)

\* C8: with searchIntent absent the visible result is exactly the items
\* that pass the category filter and, for a non-empty query, the all-words
\* match, ordered by dateAdded descending and not truncated.
C8_NoIntentExactRecency ==
    (rendered /\ searchIntent = NoIntent) =>
        LET kept == {x \in Range(items) :
                       /\ activeFilter = "all" \/ matchesCategory(x, activeFilter)
                       /\ QueryIsEmpty \/ AllTokensIn(x)}
            out  == stages.limited
        IN  /\ Range(out) = kept
            /\ Len(out) = Cardinality(kept)
            /\ \A i, j \in 1..Len(out) :
                 i < j => out[i].dateAdded >= out[j].dateAdded

\* C8 witness: without intent, a query drops an item that fails the
\* all-words match and the two kept come out newest first, against their
\* input order.
C8_Witness ==
    /\ rendered /\ searchIntent = NoIntent /\ searchQuery = "Finance"
    /\ Len(items) = 3 /\ Len(stages.limited) = 2
    /\ stages.limited[1].dateAdded > stages.limited[2].dateAdded
    /\ InputPos(stages.limited[1]) > InputPos(stages.limited[2])

\* C9 as stated: with engagement-desc a higher engagementScore precedes a
\* lower one, and for all pairs a, b with equal engagementScore a precedes
\* b iff a.dateAdded >= b.dateAdded.
C9_TieBreakGreaterOrEqual ==
    (rendered /\ sortModeOf(searchIntent) = "engagement-desc") =>
        LET out == stages.ranked IN
        \A i, j \in 1..Len(out) :
            i # j =>
              /\ out[i].engagementScore > out[j].engagementScore => i < j
              /\ out[i].engagementScore = out[j].engagementScore =>
                   (i < j <=> out[i].dateAdded >= out[j].dateAdded)

\* C9 amended: with engagement-desc a higher engagementScore precedes a
\* lower one; for all pairs a, b with equal engagementScore and different
\* dateAdded, a precedes b iff a.dateAdded > b.dateAdded, whatever the
\* input order; items equal in both keep their input order.
C9_TieBreakStrict ==
    (rendered /\ sortModeOf(searchIntent) = "engagement-desc") =>
        LET out == stages.ranked IN
        \A i, j \in 1..Len(out) :
            i # j =>
              /\ out[i].engagementScore > out[j].engagementScore => i < j
              /\ (/\ out[i].engagementScore = out[j].engagementScore
                  /\ out[i].dateAdded # out[j].dateAdded) =>
                   (i < j <=> out[i].dateAdded > out[j].dateAdded)
              /\ (/\ out[i].engagementScore = out[j].engagementScore
                  /\ out[i].dateAdded = out[j].dateAdded) =>
                   (i < j <=> InputPos(out[i]) < InputPos(out[j]))

\* C9 witness: three items of equal score, two of them of equal dateAdded,
\* ranked with the newest first although it came last in the input.
C9_Witness ==
    /\ rendered /\ sortModeOf(searchIntent) = "engagement-desc"
    /\ Len(stages.ranked) = 3
    /\ \A i \in 1..3 : stages.ranked[i].engagementScore = 5
    /\ stages.ranked[1].dateAdded > stages.ranked[2].dateAdded
    /\ stages.ranked[2].dateAdded = stages.ranked[3].dateAdded
    /\ InputPos(stages.ranked[1]) = 3

\* C10: for a limit n > 0 the visible result has length min(n, len(seq))
\* and is the first n elements of the ranked sequence seq, in order; with
\* the limit absent, zero or negative it is seq unchanged.
C10_LimitIsPrefix ==
    rendered =>
        LET n   == LimitOf(searchIntent)
            seq == stages.ranked
            out == stages.limited
        IN  IF n > 0
            THEN /\ Len(out) = (IF n < Len(seq) THEN n ELSE Len(seq))
                 /\ \A i \in 1..Len(out) : out[i] = seq[i]
            ELSE out = seq

\* C10 witness: a limit of 2 cuts a ranked sequence of 3 to its first 2.
C10_Witness ==
    /\ rendered /\ LimitOf(searchIntent) = 2
    /\ Len(stages.ranked) = 3 /\ Len(stages.limited) = 2
    /\ stages.limited = SubSeq(stages.ranked, 1, 2)


----------------------------------------------------------------------------
(* normalizeTopic applied to its own result *)

\* topic texts: item.topic, a tag or an intent topic, as the model answers
\* them or the user's content spells them
TopicTexts ==
    { pre \o core \o post :
        pre  \in {"", " ", "ß", "my "},
        core \in {"", "finance", "GYM tips", "comedy Skits", "AI",
                  "Uncategorized", "STYLE", "road trip", "tyle"},
        post \in {"", " ", "!"} }

InitTopic ==
    /\ normalized \in {<<t>> : t \in TopicTexts}
    /\ stages = NoStages
    /\ rendered = FALSE
    /\ items = <<>>
    /\ searchQuery = ""
    /\ activeFilter = "all"
    /\ searchIntent = NoIntent
    /\ StoreIdle
    /\ IntentIdle

\* normalizeTopic called on the value it returned last
Normalize ==
    /\ Len(normalized) <= MaxNormalize
    /\ normalized' = Append(normalized, normalizeTopic(normalized[Len(normalized)]))
    /\ UNCHANGED <<storeVars, searchVars, intentVars, stages, rendered>>

NextTopic == Normalize

SpecTopic == InitTopic /\ [][NextTopic]_vars

\* C14: normalizeTopic(normalizeTopic(t)) = normalizeTopic(t) for every
\* topic text t: a second application returns what the first returned.
C14_NormalizeIdempotent ==
    Len(normalized) >= 3 => normalized[3] = normalized[2]

============================================================================
